---- MODULE Spec2Model ----
(***************************************************************************)
(* Geometric reconstruction pipeline of the Transkribus post-processing    *)
(* scripts: make_training_data.py (bucket 60, fixed half-band, region      *)
(* borders) and the earlier pre-processing variant (bucket 100, height     *)
(* scaled band, detection extent).                                         *)
(*                                                                         *)
(* Representation.  A "x,y" token is the sequence of its comma-separated   *)
(* fields (what str.split(",") returns); a points string is the sequence   *)
(* of its tokens (what str.split() returns).  A Python dict is the         *)
(* sequence of its items in insertion order, each item carrying its key    *)
(* ("box3" and "l3" are the integer 3).  The mean of n integers is kept    *)
(* as the pair (sum, n).                                                   *)
(***************************************************************************)
EXTENDS Integers, Sequences, FiniteSets, TLC

VARIABLES
    variant,          \* which of the two source files is running
    xml,              \* the parsed layout document handed to create_box
    pc,               \* position in the pipeline / driver
    raised,           \* exception that left the running function, or "none"
    boxes,            \* create_box(xml)
    vertical_sorted,  \* vertical_sort(boxes)
    sorted_boxes,     \* horizontal_sort(vertical_sorted)
    sim_box,          \* simplification(sorted_boxes), later filtered by rm_overlap
    rm_arg,           \* the dict rm_overlap was called with, before its deletions
    rerun,            \* line_simplification re-applied to every emitted line
    layout_files,     \* the batch: sorted list of layout documents
    transcripts,      \* number of lines of the transcript of every page
    file_idx,         \* index of the layout file the driver loop is at
    written           \* indices of the layout files whose page xml was written

vars == <<variant, xml, pc, raised, boxes, vertical_sorted, sorted_boxes,
          sim_box, rm_arg, rerun, layout_files, transcripts, file_idx, written>>

-----------------------------------------------------------------------------
(* Bounds of the model *)

MaxLines == 3
MaxFiles == 2

-----------------------------------------------------------------------------
(* Constants of the two source files *)

Variants == {"make_training_data", "preprocess"}

BucketSize60 == 60
BucketSize100 == 100
RoundUpAbove == 30
MinBaselineLength == 400
HalfBand == 25
MinLineSeparation == 40

bucket_size(v) == IF v = "make_training_data" THEN BucketSize60 ELSE BucketSize100

-----------------------------------------------------------------------------
(* Generic helpers: Python built-ins *)

Abs(n) == IF n < 0 THEN -n ELSE n

\* int(a / b) for b > 0: truncation towards zero
TruncDiv(a, b) == IF a >= 0 THEN a \div b ELSE -((-a) \div b)

Last(s) == s[Len(s)]

RECURSIVE SumSeq(_)
SumSeq(s) == IF s = <<>> THEN 0 ELSE s[1] + SumSeq(Tail(s))

\* index of the first element with the smallest key: min(items, key=...)
ArgMin(s, key(_)) ==
    CHOOSE i \in 1..Len(s) :
        /\ \A j \in 1..Len(s) : key(s[i]) <= key(s[j])
        /\ \A j \in 1..(i - 1) : key(s[j]) > key(s[i])

\* index of the first element with the greatest key: max(items, key=...)
ArgMax(s, key(_)) ==
    CHOOSE i \in 1..Len(s) :
        /\ \A j \in 1..Len(s) : key(s[i]) >= key(s[j])
        /\ \A j \in 1..(i - 1) : key(s[j]) < key(s[i])

\* the subsequence of s at the index set idx, in index order
SelectAt(s, idx) ==
    LET pos(i) == Cardinality({j \in idx : j <= i})
    IN  [p \in 1..Cardinality(idx) |-> s[CHOOSE i \in idx : pos(i) = p]]

\* sorted(items, key=...): ascending and stable (equal keys keep their order)
Sorted(s, key(_)) ==
    LET before(j, i) == \/ key(s[j]) < key(s[i])
                        \/ key(s[j]) = key(s[i]) /\ j < i
        rank(i) == Cardinality({j \in 1..Len(s) : before(j, i)}) + 1
    IN  [p \in 1..Len(s) |-> s[CHOOSE i \in 1..Len(s) : rank(i) = p]]

Filter(s, keep(_)) == SelectAt(s, {i \in 1..Len(s) : keep(s[i])})

RECURSIVE Flatten(_)
Flatten(ss) == IF ss = <<>> THEN <<>> ELSE ss[1] \o Flatten(Tail(ss))

Range(s) == {s[i] : i \in 1..Len(s)}

-----------------------------------------------------------------------------
(* Geometry helpers *)

\* get_coord: the fields of a token
get_coord(point) == point

\* math.sqrt((x1-x2)**2 + (y1-y2)**2); every caller passes y1 = y2
get_baseline_length(x1, x2) == Abs(x1 - x2)

\* a token whose field 1 (the y) can be read
HasY(point) == Len(get_coord(point)) >= 2

\* the list ys built by get_y_avg and get_line_indicator
Ys(coords) == [i \in 1..Len(coords) |-> get_coord(coords[i])[2]]

\* get_y_avg followed by int(): int(mean(ys))
get_y_avg(coords) == TruncDiv(SumSeq(Ys(coords)), Len(coords))

\* the quantization rounding a remainder of exactly 30 up as well
line_indicator_inclusive(sum, n, b) ==
    IF sum % (b * n) >= RoundUpAbove * n
    THEN (sum \div (b * n) + 1) * b
    ELSE (sum \div (b * n)) * b

\* the quantization with the remainder in the place of the quotient
line_indicator_mod(sum, n, b) ==
    IF sum % (b * n) > RoundUpAbove * n
    THEN ((sum % (b * n)) \div n + 1) * b
    ELSE ((sum % (b * n)) \div n) * b

\* the quantization on a mean given as sum / n, grid b
line_indicator(sum, n, b) ==
    IF sum % (b * n) > RoundUpAbove * n
    THEN (sum \div (b * n) + 1) * b
    ELSE (sum \div (b * n)) * b

\* get_line_indicator
get_line_indicator(coords, v) ==
    line_indicator(SumSeq(Ys(coords)), Len(coords), bucket_size(v))

\* get_poly_coord raises when a token has one field only
PolyParses(poly) == \A i \in 1..Len(poly) : HasY(poly[i])

get_poly_coord(poly) == [i \in 1..Len(poly) |-> <<poly[i][1], poly[i][2]>>]

\* get_avg_height
RECURSIVE SumHeight(_, _)
SumHeight(poly, i) ==
    IF i = 0 THEN 0
    ELSE (poly[i][2] - poly[Len(poly) + 1 - i][2]) + SumHeight(poly, i - 1)

get_avg_height(poly) == SumHeight(poly, Len(poly) \div 2) \div (Len(poly) \div 2)

\* get_main_region: index of the first region with the most TextLine elements
get_main_region(regions) ==
    LET count(r) == Len(r.lines) IN ArgMax(regions, count)

-----------------------------------------------------------------------------
(* Detection Extractor *)

\* field reads on string-keyed dict values
bl_start_x(box) == box.bl_start_x
bl_end_x(box) == box.bl_end_x
bl_length(box) == box.bl_length
box_line_indicator(box) == box.line_indicator

\* the exception, if any, that the body of create_box's loop raises on a line
LineError(line) ==
    IF ~PolyParses(line.Coords) THEN "IndexError"            \* point[1] in get_poly_coord
    ELSE IF Len(line.Coords) < 2 THEN "ZeroDivisionError"    \* sum_height // 0
    ELSE IF Len(line.Baseline) = 0 THEN "IndexError"         \* baseline_coords[0]
    ELSE IF \E i \in 1..Len(line.Baseline) : ~HasY(line.Baseline[i])
         THEN "IndexError"                                   \* point[1] in get_y_avg
    ELSE "none"

\* the attribute record of line number i (zero based) of the main region
Box(line, i, region, v) ==
    LET poly_coords      == get_poly_coord(line.Coords)
        avg_height       == get_avg_height(poly_coords)
        baseline_coords  == line.Baseline
        start_base_point == get_coord(baseline_coords[1])
        end_base_point   == get_coord(Last(baseline_coords))
        base_y_avg       == get_y_avg(baseline_coords)
        indicator        == get_line_indicator(baseline_coords, v)
        common == [key            |-> i,
                   bl_start_x     |-> start_base_point[1],
                   bl_start_y     |-> base_y_avg,
                   bl_end_x       |-> end_base_point[1],
                   bl_end_y       |-> base_y_avg,
                   bl_length      |-> get_baseline_length(start_base_point[1],
                                                          end_base_point[1]),
                   avg_height     |-> avg_height,
                   line_indicator |-> indicator]
    IN  IF v = "make_training_data"
        THEN [key            |-> common.key,
              bl_start_x     |-> common.bl_start_x,
              bl_start_y     |-> common.bl_start_y,
              bl_end_x       |-> common.bl_end_x,
              bl_end_y       |-> common.bl_end_y,
              bl_length      |-> common.bl_length,
              avg_height     |-> common.avg_height,
              line_indicator |-> common.line_indicator,
              left_border    |-> get_coord(region.points[1])[1],
              right_border   |-> get_coord(region.points[4])[1]]
        ELSE common

\* create_box: [raised |-> exception leaving the function, boxes |-> returned dict]
create_box(doc, v) ==
    LET regions == doc.regions IN
    IF regions = <<>>
    THEN \* max() of an empty list in get_main_region
         IF v = "make_training_data"
         THEN [raised |-> "none", boxes |-> <<>>]        \* except: return boxes
         ELSE [raised |-> "ValueError", boxes |-> <<>>]
    ELSE
    LET region == regions[get_main_region(regions)]
        lines  == region.lines
        bad    == {i \in 1..Len(lines) : LineError(lines[i]) # "none"}
    IN  IF v = "make_training_data" /\ Len(region.points) < 4
        THEN [raised |-> "IndexError", boxes |-> <<>>]   \* region_borders[3]
        ELSE IF bad # {}
        THEN [raised |-> LineError(lines[CHOOSE i \in bad : \A j \in bad : i <= j]),
              boxes  |-> <<>>]
        ELSE [raised |-> "none",
              boxes  |-> [i \in 1..Len(lines) |-> Box(lines[i], i - 1, region, v)]]

-----------------------------------------------------------------------------
(* Vertical Clusterer and Horizontal Orderer *)

vertical_sort(bxs) == Sorted(bxs, box_line_indicator)

\* the keys of res in insertion order: every bucket at the place it is first seen
BucketKeys(bxs) ==
    LET first == {i \in 1..Len(bxs) :
                    \A j \in 1..(i - 1) : bxs[j].line_indicator # bxs[i].line_indicator}
    IN  [p \in 1..Cardinality(first) |-> SelectAt(bxs, first)[p].line_indicator]

\* sub_box taking every box from bucket k on
SubBox_from_bucket(bxs, k) == LET member(b) == b.line_indicator >= k IN Filter(bxs, member)

\* sub_box of bucket k: its members in the order of bxs
SubBox(bxs, k) == LET member(b) == b.line_indicator = k IN Filter(bxs, member)

\* horizontal_sort ordering every cluster by the baseline end
horizontal_sort_by_end(bxs) ==
    LET keys == BucketKeys(bxs)
    IN  Flatten([c \in 1..Len(keys) |-> Sorted(SubBox(bxs, keys[c]), bl_end_x)])

\* horizontal_sort; box keys are unique, so every update() appends
horizontal_sort(bxs) ==
    LET keys == BucketKeys(bxs)
    IN  Flatten([c \in 1..Len(keys) |-> Sorted(SubBox(bxs, keys[c]), bl_start_x)])

-----------------------------------------------------------------------------
(* Line Simplifier *)

\* the member with the shortest baseline
shortest_baseline(sub_box) == sub_box[ArgMin(sub_box, bl_length)]

\* max(sub_box.items(), key=bl_length): the member with the longest baseline
longest_baseline(sub_box) == sub_box[ArgMax(sub_box, bl_length)]

\* the gate with "or" in the place of "and"
validity_gate_either(baseline_length, indicator) ==
    baseline_length > MinBaselineLength \/ indicator # 0

\* the gate letting a length of exactly 400 through
validity_gate_inclusive(baseline_length, indicator) ==
    baseline_length >= MinBaselineLength /\ indicator # 0

\* the condition under which line_simplification builds a line
validity_gate(baseline_length, indicator) ==
    baseline_length > MinBaselineLength /\ indicator # 0

\* line_simplification: <<>> is None, <<l>> the dict with the single item l
line_simplification(sub_box, line_num, v) ==
    LET first_start == sub_box[ArgMin(sub_box, bl_start_x)]
        last_end    == sub_box[ArgMax(sub_box, bl_end_x)]
        start       == first_start.bl_start_x
        end         == last_end.bl_end_x
        longest     == longest_baseline(sub_box)
        height      == longest.avg_height
        y_avg       == longest.bl_start_y
        indicator   == longest.line_indicator
        fixed       == v = "make_training_data"
        left_x      == IF fixed THEN first_start.left_border ELSE start
        right_x     == IF fixed THEN last_end.right_border ELSE end
        poly_x1     == left_x
        poly_y1     == IF fixed THEN y_avg - HalfBand
                       ELSE TruncDiv(4 * y_avg - 5 * height, 4)  \* int(y_avg - height*1.25)
        poly_x2     == right_x
        poly_y2     == poly_y1
        poly_x3     == right_x
        poly_y3     == IF fixed THEN y_avg + HalfBand ELSE y_avg + height \div 2
        poly_x4     == left_x
        poly_y4     == poly_y3
        baseline_length == get_baseline_length(start, end)
    IN  IF validity_gate(baseline_length, indicator)
        THEN << [key        |-> line_num,
                 bl_points  |-> << <<left_x, y_avg>>, <<right_x, y_avg>> >>,
                 poly_coord |-> << <<poly_x4, poly_y4>>, <<poly_x3, poly_y3>>,
                                   <<poly_x2, poly_y2>>, <<poly_x1, poly_y1>> >>] >>
        ELSE <<>>

\* simplification; line_counter is the position of the bucket in res, so the
\* keys l<n> are unique and every update() appends
simplification(bxs, v) ==
    LET keys == BucketKeys(bxs)
    IN  Flatten([c \in 1..Len(keys) |->
                    line_simplification(SubBox(bxs, keys[c]), c - 1, v)])

-----------------------------------------------------------------------------
(* Overlap Resolver *)

\* int(get_start_y(poly)): the last field of the last token
get_start_y(poly) == Last(Last(poly))

\* rm_key when prev_key is never advanced: every line is compared with the first
rm_key_stale_prev(sb) ==
    {sb[1].key : i \in {j \in 2..Len(sb) :
        get_start_y(sb[j].poly_coord) - get_start_y(sb[1].poly_coord)
            < MinLineSeparation}}

\* rm_key: the keys collected by the scan over the unmodified dict
rm_key(sb) ==
    {sb[i - 1].key : i \in {j \in 2..Len(sb) :
        get_start_y(sb[j].poly_coord) - get_start_y(sb[j - 1].poly_coord)
            < MinLineSeparation}}

\* rm_overlap: the deletions are applied after the scan
rm_overlap(sb) ==
    LET stays(l) == l.key \notin rm_key(sb) IN Filter(sb, stays)

-----------------------------------------------------------------------------
(* Inputs: layout documents *)

\* a TextLine: four polygon tokens (bottom edge first) and a baseline from
\* xs to xe through the points ys
MkLine(xs, xe, ys, h) ==
    [Coords   |-> << <<xs, ys[1] + 2>>, <<xe, ys[1] + 2>>,
                     <<xe, ys[1] + 2 - h>>, <<xs, ys[1] + 2 - h>> >>,
     Baseline |-> [i \in 1..Len(ys) |-> <<(IF i = 1 THEN xs ELSE xe), ys[i]>>]]

\* a TextLine whose polygon has the token "233" in second place
MalformedLine ==
    [Coords   |-> << <<100, 82>>, <<233>>, <<600, 72>>, <<100, 72>> >>,
     Baseline |-> << <<100, 80>>, <<600, 80>> >>]

RawLines ==
    { MkLine(100, 600, <<20, 20>>, 10),
      MkLine(100, 220, <<80, 80>>, 10),
      MkLine(50, 500, <<85, 96>>, 8),
      MkLine(100, 500, <<90, 90>>, 10),
      MkLine(50, 600, <<140, 140>>, 10),
      MkLine(100, 600, <<170, 170>>, 104),
      MkLine(100, 700, <<60, 60>>, 10),
      MkLine(50, 600, <<200, 200>>, 104),
      MalformedLine }

LineSeqs(n) == UNION {[1..k -> RawLines] : k \in 0..n}

\* region boundary: points 0 and 3 carry the left and the right x
Borders(left, right) == << <<left, 0>>, <<left, 999>>, <<right, 999>>, <<right, 0>> >>

RegionBorders == {Borders(0, 1000), Borders(100, 500)}

Region(points, lines) == [points |-> points, lines |-> lines]

EmptyRegion == Region(Borders(7, 77), <<>>)

NoRegionDocument == [regions |-> <<>>]

Documents ==
    {NoRegionDocument}
    \cup {[regions |-> <<Region(b, ls)>>] : b \in RegionBorders, ls \in LineSeqs(MaxLines)}
    \cup {[regions |-> <<EmptyRegion, Region(Borders(0, 1000), ls)>>] : ls \in LineSeqs(1)}

-----------------------------------------------------------------------------
(* The pipeline on one document, stage by stage *)

NotRun == [ran |-> FALSE, lines |-> <<>>]

Init ==
    /\ variant \in Variants
    /\ xml \in Documents
    /\ pc = "create_box"
    /\ raised = "none"
    /\ boxes = <<>>
    /\ vertical_sorted = <<>>
    /\ sorted_boxes = <<>>
    /\ sim_box = <<>>
    /\ rm_arg = <<>>
    /\ rerun = NotRun
    /\ layout_files = <<>>
    /\ transcripts = <<>>
    /\ file_idx = 0
    /\ written = {}

CreateBox ==
    /\ pc = "create_box"
    /\ LET r == create_box(xml, variant)
       IN  /\ raised' = r.raised
           /\ boxes' = r.boxes
           /\ pc' = IF r.raised = "none" THEN "vertical_sort" ELSE "raised"
    /\ UNCHANGED <<variant, xml, vertical_sorted, sorted_boxes, sim_box, rm_arg,
                   rerun, layout_files, transcripts, file_idx, written>>

VerticalSort ==
    /\ pc = "vertical_sort"
    /\ vertical_sorted' = vertical_sort(boxes)
    /\ pc' = "horizontal_sort"
    /\ UNCHANGED <<variant, xml, raised, boxes, sorted_boxes, sim_box, rm_arg,
                   rerun, layout_files, transcripts, file_idx, written>>

HorizontalSort ==
    /\ pc = "horizontal_sort"
    /\ sorted_boxes' = horizontal_sort(vertical_sorted)
    /\ pc' = "simplification"
    /\ UNCHANGED <<variant, xml, raised, boxes, vertical_sorted, sim_box, rm_arg,
                   rerun, layout_files, transcripts, file_idx, written>>

Simplification ==
    /\ pc = "simplification"
    /\ sim_box' = simplification(sorted_boxes, variant)
    /\ pc' = "rm_overlap"
    /\ UNCHANGED <<variant, xml, raised, boxes, vertical_sorted, sorted_boxes,
                   rm_arg, rerun, layout_files, transcripts, file_idx, written>>

\* the cluster a line of simplification's output was built from
ClusterOf(line) == SubBox(sorted_boxes, BucketKeys(sorted_boxes)[line.key + 1])

\* an emitted line read back as a detection: its baseline ends, y and borders,
\* with the bucket and the height of the cluster's longest member
AsDetection(line) ==
    LET rep  == longest_baseline(ClusterOf(line))
        core == [key            |-> line.key,
                 bl_start_x     |-> line.bl_points[1][1],
                 bl_start_y     |-> line.bl_points[1][2],
                 bl_end_x       |-> line.bl_points[2][1],
                 bl_end_y       |-> line.bl_points[2][2],
                 bl_length      |-> get_baseline_length(line.bl_points[1][1],
                                                        line.bl_points[2][1]),
                 avg_height     |-> rep.avg_height,
                 line_indicator |-> rep.line_indicator]
    IN  IF variant = "make_training_data"
        THEN [key            |-> core.key,
              bl_start_x     |-> core.bl_start_x,
              bl_start_y     |-> core.bl_start_y,
              bl_end_x       |-> core.bl_end_x,
              bl_end_y       |-> core.bl_end_y,
              bl_length      |-> core.bl_length,
              avg_height     |-> core.avg_height,
              line_indicator |-> core.line_indicator,
              left_border    |-> rep.left_border,
              right_border   |-> rep.right_border]
        ELSE core

\* line_simplification applied once more, to every emitted line as a cluster of one
SimplifyAgain ==
    /\ pc = "rm_overlap"
    /\ ~rerun.ran
    /\ rerun' = [ran   |-> TRUE,
                 lines |-> [i \in 1..Len(sim_box) |->
                              line_simplification(<<AsDetection(sim_box[i])>>,
                                                  sim_box[i].key, variant)]]
    /\ UNCHANGED <<variant, xml, pc, raised, boxes, vertical_sorted, sorted_boxes,
                   sim_box, rm_arg, layout_files, transcripts, file_idx, written>>

RmOverlap ==
    /\ pc = "rm_overlap"
    /\ rm_arg' = sim_box
    /\ sim_box' = rm_overlap(sim_box)
    /\ pc' = "done"
    /\ UNCHANGED <<variant, xml, raised, boxes, vertical_sorted, sorted_boxes,
                   rerun, layout_files, transcripts, file_idx, written>>

Next ==
    \/ CreateBox
    \/ VerticalSort
    \/ HorizontalSort
    \/ Simplification
    \/ SimplifyAgain
    \/ RmOverlap

Spec == Init /\ [][Next]_vars

-----------------------------------------------------------------------------
(* The batch driver apply_transcript of make_training_data.py *)

\* get_region_coord, called by get_head: raises where get_main_region does
get_region_coord(doc) ==
    IF doc.regions = <<>>
    THEN [raised |-> "ValueError", points |-> <<>>]
    ELSE [raised |-> "none", points |-> doc.regions[get_main_region(doc.regions)].points]

\* the number of (layout_file, transcript) pairs that zip() yields
Pairs == IF Len(layout_files) < Len(transcripts) THEN Len(layout_files)
         ELSE Len(transcripts)

BatchDocuments ==
    { NoRegionDocument,
      [regions |-> <<EmptyRegion>>],
      [regions |-> <<Region(Borders(0, 1000), <<MalformedLine>>)>>],
      [regions |-> <<Region(Borders(0, 1000),
                            << MkLine(100, 700, <<60, 60>>, 10),
                               MkLine(50, 600, <<140, 140>>, 10),
                               MkLine(100, 600, <<170, 170>>, 104) >>)>>] }

\* number of non-empty lines of one page of the transcript
TranscriptLines == {0, 2}

\* apply_transcript of make_training_data.py or post_process of the other
\* variant, at the head of its loop; post_process reads no transcript
InitDriver ==
    /\ variant \in Variants
    /\ layout_files \in UNION {[1..n -> BatchDocuments] : n \in 0..MaxFiles}
    /\ IF variant = "make_training_data"
       THEN /\ transcripts \in UNION {[1..n -> TranscriptLines] : n \in 1..MaxFiles}
            /\ pc = "for_layout_file"
       ELSE /\ transcripts = <<>>
            /\ pc = "post_process_for"
    /\ file_idx = 0
    /\ written = {}
    /\ xml = NoRegionDocument
    /\ raised = "none"
    /\ boxes = <<>>
    /\ vertical_sorted = <<>>
    /\ sorted_boxes = <<>>
    /\ sim_box = <<>>
    /\ rm_arg = <<>>
    /\ rerun = NotRun

\* the for statement: the next pair of zip(), then read_xml
NextLayoutFile ==
    /\ pc = "for_layout_file"
    /\ file_idx < Pairs
    /\ file_idx' = file_idx + 1
    /\ xml' = layout_files[file_idx + 1]
    /\ pc' = "call_create_box"
    /\ UNCHANGED <<variant, raised, boxes, vertical_sorted, sorted_boxes, sim_box,
                   rm_arg, rerun, layout_files, transcripts, written>>

CallCreateBox ==
    /\ pc = "call_create_box"
    /\ LET r == create_box(xml, variant)
       IN  /\ raised' = r.raised
           /\ boxes' = r.boxes
           /\ pc' = IF r.raised = "none" THEN "call_sort" ELSE "raised"
    /\ UNCHANGED <<variant, xml, vertical_sorted, sorted_boxes, sim_box, rm_arg,
                   rerun, layout_files, transcripts, file_idx, written>>

CallSort ==
    /\ pc = "call_sort"
    /\ vertical_sorted' = vertical_sort(boxes)
    /\ sorted_boxes' = horizontal_sort(vertical_sort(boxes))
    /\ pc' = "call_simplification"
    /\ UNCHANGED <<variant, xml, raised, boxes, sim_box, rm_arg, rerun,
                   layout_files, transcripts, file_idx, written>>

CallSimplification ==
    /\ pc = "call_simplification"
    /\ sim_box' = simplification(sorted_boxes, variant)
    /\ pc' = "call_get_head"
    /\ UNCHANGED <<variant, xml, raised, boxes, vertical_sorted, sorted_boxes,
                   rm_arg, rerun, layout_files, transcripts, file_idx, written>>

\* get_transcript, the mismatch report and get_head
CallGetHead ==
    /\ pc = "call_get_head"
    /\ LET r == get_region_coord(xml)
       IN  /\ raised' = r.raised
           /\ pc' = IF r.raised = "none" THEN "call_serialize_change" ELSE "raised"
    /\ UNCHANGED <<variant, xml, boxes, vertical_sorted, sorted_boxes, sim_box,
                   rm_arg, rerun, layout_files, transcripts, file_idx, written>>

\* serialize_change writes the page of the current layout file
CallSerializeChange ==
    /\ pc = "call_serialize_change"
    /\ written' = written \cup {file_idx}
    /\ pc' = "for_layout_file"
    /\ UNCHANGED <<variant, xml, raised, boxes, vertical_sorted, sorted_boxes,
                   sim_box, rm_arg, rerun, layout_files, transcripts, file_idx>>

\* zip() is exhausted: get_images, get_res_file, "Output Ready"
OutputReady ==
    /\ pc = "for_layout_file"
    /\ file_idx >= Pairs
    /\ pc' = "output_ready"
    /\ UNCHANGED <<variant, xml, raised, boxes, vertical_sorted, sorted_boxes,
                   sim_box, rm_arg, rerun, layout_files, transcripts, file_idx,
                   written>>

-----------------------------------------------------------------------------
(* The batch driver post_process of the pre-processing variant *)

\* the for statement over all layout files, then read_xml
PostProcessNextFile ==
    /\ pc = "post_process_for"
    /\ file_idx < Len(layout_files)
    /\ file_idx' = file_idx + 1
    /\ xml' = layout_files[file_idx + 1]
    /\ pc' = "post_process_create_box"
    /\ UNCHANGED <<variant, raised, boxes, vertical_sorted, sorted_boxes, sim_box,
                   rm_arg, rerun, layout_files, transcripts, written>>

\* boxes = create_box(xml); if boxes:
PostProcessCreateBox ==
    /\ pc = "post_process_create_box"
    /\ LET r == create_box(xml, variant)
       IN  /\ raised' = r.raised
           /\ boxes' = r.boxes
           /\ pc' = IF r.raised # "none" THEN "raised"
                    ELSE IF r.boxes = <<>> THEN "post_process_for"
                    ELSE "post_process_sort"
    /\ UNCHANGED <<variant, xml, vertical_sorted, sorted_boxes, sim_box, rm_arg,
                   rerun, layout_files, transcripts, file_idx, written>>

PostProcessSort ==
    /\ pc = "post_process_sort"
    /\ vertical_sorted' = vertical_sort(boxes)
    /\ sorted_boxes' = horizontal_sort(vertical_sort(boxes))
    /\ pc' = "post_process_simplification"
    /\ UNCHANGED <<variant, xml, raised, boxes, sim_box, rm_arg, rerun,
                   layout_files, transcripts, file_idx, written>>

PostProcessSimplification ==
    /\ pc = "post_process_simplification"
    /\ sim_box' = simplification(sorted_boxes, variant)
    /\ pc' = "post_process_rm_overlap"
    /\ UNCHANGED <<variant, xml, raised, boxes, vertical_sorted, sorted_boxes,
                   rm_arg, rerun, layout_files, transcripts, file_idx, written>>

\* sim_box = rm_overlap(sim_box): the file of post_process defines and imports
\* no rm_overlap, so the name lookup raises and nothing is serialized
PostProcessRmOverlap ==
    /\ pc = "post_process_rm_overlap"
    /\ raised' = "NameError"
    /\ pc' = "raised"
    /\ UNCHANGED <<variant, xml, boxes, vertical_sorted, sorted_boxes, sim_box,
                   rm_arg, rerun, layout_files, transcripts, file_idx, written>>

\* the loop is over: get_images, get_res_file, "Output Ready"
PostProcessOutputReady ==
    /\ pc = "post_process_for"
    /\ file_idx >= Len(layout_files)
    /\ pc' = "output_ready"
    /\ UNCHANGED <<variant, xml, raised, boxes, vertical_sorted, sorted_boxes,
                   sim_box, rm_arg, rerun, layout_files, transcripts, file_idx,
                   written>>

NextDriver ==
    \/ PostProcessNextFile
    \/ PostProcessCreateBox
    \/ PostProcessSort
    \/ PostProcessSimplification
    \/ PostProcessRmOverlap
    \/ PostProcessOutputReady
    \/ NextLayoutFile
    \/ CallCreateBox
    \/ CallSort
    \/ CallSimplification
    \/ CallGetHead
    \/ CallSerializeChange
    \/ OutputReady

SpecDriver == InitDriver /\ [][NextDriver]_vars

-----------------------------------------------------------------------------
(* Vocabulary of the properties *)

Training == variant = "make_training_data"

\* the stage named by p has run on the current document
AfterExtraction == pc \in {"vertical_sort", "horizontal_sort", "simplification",
                           "rm_overlap", "done"}
AfterOrdering == pc \in {"simplification", "rm_overlap", "done"}
AfterSimplifier == pc = "rm_overlap"
AfterResolver == pc = "done"

\* y of the last listed polygon vertex of a line
RefY(line) == line.poly_coord[4][2]

\* the region create_box reads: the one that holds the detections
LinesOfDocument == xml.regions[Len(xml.regions)].lines

\* the buckets present after ordering, and the members of one of them
BucketsPresent == {sorted_boxes[i].line_indicator : i \in 1..Len(sorted_boxes)}
Members(k) == {b \in Range(sorted_boxes) : b.line_indicator = k}

\* zero-based number of the cluster of bucket k, clusters being bucket-ascending
LineNumber(k) == Cardinality({j \in BucketsPresent : j < k})

MinStart(k) == CHOOSE x \in {b.bl_start_x : b \in Members(k)} :
                  \A b \in Members(k) : x <= b.bl_start_x
MaxEnd(k) == CHOOSE x \in {b.bl_end_x : b \in Members(k)} :
                  \A b \in Members(k) : x >= b.bl_end_x

Emitted(k) == {l \in Range(sim_box) : l.key = LineNumber(k)}

-----------------------------------------------------------------------------
(* C1: on the lines that make_training_data.py's simplification emits from *)
(* vertically and horizontally sorted detections, rm_overlap returns no    *)
(* more lines than it was given, and any two lines it returns have         *)
(* reference-vertex y-coordinates at least 40 apart.                       *)
C1_OverlapReduction ==
    (AfterResolver /\ Training) =>
        /\ Len(sim_box) <= Len(rm_arg)
        /\ \A i, j \in 1..Len(sim_box) :
              i # j => Abs(RefY(sim_box[i]) - RefY(sim_box[j])) >= 40

C1_Witness ==
    /\ AfterResolver /\ Training
    /\ Len(rm_arg) = 3
    /\ Len(sim_box) = 2
    /\ RefY(rm_arg[3]) - RefY(rm_arg[2]) < 40

(* C2: line_simplification returns a line for a cluster exactly when the   *)
(* distance between the cluster's least baseline start x and greatest      *)
(* baseline end x is more than 400 and the cluster's bucket is not 0.      *)
C2_ValidityGate ==
    AfterSimplifier =>
        \A k \in BucketsPresent :
            /\ Cardinality(Emitted(k)) <= 1
            /\ Emitted(k) # {} <=> (Abs(MaxEnd(k) - MinStart(k)) > 400 /\ k # 0)

C2_Witness ==
    /\ AfterSimplifier
    /\ \E k \in BucketsPresent : k = 0 /\ Abs(MaxEnd(k) - MinStart(k)) > 400
                                       /\ Emitted(k) = {}
    /\ \E k \in BucketsPresent : k # 0 /\ Abs(MaxEnd(k) - MinStart(k)) = 120
                                       /\ Emitted(k) = {}
    /\ \E k \in BucketsPresent : Emitted(k) # {}

(* C3: after vertical_sort and horizontal_sort the detections are in       *)
(* reading order: buckets ascending, within a bucket baseline start x      *)
(* ascending for every adjacent pair, equal start x in extraction order.   *)
C3_ReadingOrder ==
    AfterOrdering =>
        \A i, j \in 1..Len(sorted_boxes) :
            LET a == sorted_boxes[i]
                b == sorted_boxes[j]
            IN  i < j =>
                  /\ a.line_indicator <= b.line_indicator
                  /\ (j = i + 1 /\ a.line_indicator = b.line_indicator)
                        => a.bl_start_x <= b.bl_start_x
                  /\ (a.line_indicator = b.line_indicator
                        /\ a.bl_start_x = b.bl_start_x) => a.key < b.key

C3_Witness ==
    /\ AfterOrdering
    /\ \E i, j \in 1..Len(sorted_boxes) :
          /\ j = i + 1
          /\ sorted_boxes[i].line_indicator = sorted_boxes[j].line_indicator
          /\ sorted_boxes[i].bl_start_x = 50
          /\ sorted_boxes[j].bl_start_x = 100
          /\ sorted_boxes[i].key > sorted_boxes[j].key
    /\ \E i, j \in 1..Len(sorted_boxes) :
          /\ i < j
          /\ sorted_boxes[i].line_indicator = sorted_boxes[j].line_indicator
          /\ sorted_boxes[i].bl_start_x = sorted_boxes[j].bl_start_x

\* the clusters that the grouping loop builds over a dict of boxes
Clusters(bxs) == [c \in 1..Len(BucketKeys(bxs)) |-> SubBox(bxs, BucketKeys(bxs)[c])]

Partitions(bxs) ==
    LET cl == Clusters(bxs)
    IN  /\ \A i \in 1..Len(bxs) :
              Cardinality({c \in 1..Len(cl) : bxs[i] \in Range(cl[c])}) = 1
        /\ \A c \in 1..Len(cl) :
              /\ cl[c] # <<>>
              /\ \A p \in 1..Len(cl[c]) : cl[c][p].line_indicator = BucketKeys(bxs)[c]
        /\ SumSeq([c \in 1..Len(cl) |-> Len(cl[c])]) = Len(bxs)

(* C4: the grouping of horizontal_sort and of simplification puts every    *)
(* detection in exactly one cluster, keyed by the detection's bucket, no   *)
(* cluster is empty, and horizontal_sort returns exactly its input         *)
(* detections.                                                             *)
C4_ClusteringComplete ==
    AfterOrdering =>
        /\ Partitions(vertical_sorted)
        /\ Partitions(sorted_boxes)
        /\ Len(sorted_boxes) = Len(vertical_sorted)
        /\ Range(sorted_boxes) = Range(vertical_sorted)
        /\ Range(sorted_boxes) = Range(boxes)

C4_Witness ==
    /\ AfterOrdering
    /\ Len(boxes) = 3
    /\ Len(Clusters(sorted_boxes)) = 2
    /\ sorted_boxes # boxes

-----------------------------------------------------------------------------
\* the well-formed detections of the region, by zero-based position
WellFormed == {i - 1 : i \in {j \in 1..Len(LinesOfDocument) :
                                 /\ \A t \in 1..Len(LinesOfDocument[j].Coords) :
                                        Len(LinesOfDocument[j].Coords[t]) = 2
                                 /\ \A t \in 1..Len(LinesOfDocument[j].Baseline) :
                                        Len(LinesOfDocument[j].Baseline[t]) = 2}}

HasMalformed == xml.regions # <<>> /\ Cardinality(WellFormed) < Len(LinesOfDocument)

(* C6: when a detection of the selected region has a coordinate token      *)
(* without exactly two fields, create_box skips that detection only: it    *)
(* returns the records of all well-formed detections and no record for     *)
(* the failing one.                                                        *)
C6_SkipMalformedDetection ==
    (pc # "create_box" /\ HasMalformed) =>
        /\ raised = "none"
        /\ {boxes[i].key : i \in 1..Len(boxes)} = WellFormed

\* the borders of the region that holds the detections
RegionLeft == xml.regions[Len(xml.regions)].points[1][1]
RegionRight == xml.regions[Len(xml.regions)].points[4][1]

\* y of a member of bucket k whose baseline is the longest of the bucket
IsRepresentativeY(k, y) ==
    \E m \in Members(k) : /\ \A b \in Members(k) : b.bl_length <= m.bl_length
                          /\ y = m.bl_start_y

FixedBandLine(l, k) ==
    \E y \in {b.bl_start_y : b \in Members(k)} :
        /\ IsRepresentativeY(k, y)
        /\ l.bl_points = << <<RegionLeft, y>>, <<RegionRight, y>> >>
        /\ l.poly_coord = << <<RegionLeft, y + 25>>, <<RegionRight, y + 25>>,
                             <<RegionRight, y - 25>>, <<RegionLeft, y - 25>> >>

ScaledBandLine(l, k) ==
    \E m \in Members(k) :
        /\ \A b \in Members(k) : b.bl_length <= m.bl_length
        /\ l.bl_points = << <<MinStart(k), m.bl_start_y>>, <<MaxEnd(k), m.bl_start_y>> >>
        /\ \E top \in {t \in (m.bl_start_y - 2 * Abs(m.avg_height) - 1)
                              ..(m.bl_start_y + 2 * Abs(m.avg_height) + 1) :
                          IF 4 * m.bl_start_y - 5 * m.avg_height >= 0
                          THEN /\ 4 * t <= 4 * m.bl_start_y - 5 * m.avg_height
                               /\ 4 * t > 4 * m.bl_start_y - 5 * m.avg_height - 4
                          ELSE /\ 4 * t >= 4 * m.bl_start_y - 5 * m.avg_height
                               /\ 4 * t < 4 * m.bl_start_y - 5 * m.avg_height + 4} :
              l.poly_coord =
                 << <<MinStart(k), m.bl_start_y + m.avg_height \div 2>>,
                    <<MaxEnd(k), m.bl_start_y + m.avg_height \div 2>>,
                    <<MaxEnd(k), top>>, <<MinStart(k), top>> >>

-----------------------------------------------------------------------------
\* the distance between the two baseline points of a line
BaselineSpan(l) == Abs(l.bl_points[2][1] - l.bl_points[1][1])

(* C8 as claimed: line_simplification applied to an emitted line, taken as *)
(* a cluster of one detection, returns that line unchanged.                *)
C8_RerunAlwaysSame ==
    (AfterSimplifier /\ rerun.ran) =>
        \A i \in 1..Len(sim_box) : rerun.lines[i] = <<sim_box[i]>>

(* C8 amended: the re-run returns the line unchanged when the two baseline *)
(* points of the line are more than 400 apart, and returns no line when    *)
(* they are not (region borders at most 400 apart in make_training_data).  *)
C8_RerunSameIffWide ==
    (AfterSimplifier /\ rerun.ran) =>
        \A i \in 1..Len(sim_box) :
            rerun.lines[i] = IF BaselineSpan(sim_box[i]) > 400
                             THEN <<sim_box[i]>> ELSE <<>>

C8_Witness ==
    /\ AfterSimplifier /\ rerun.ran
    /\ Len(sim_box) >= 2
    /\ \A i \in 1..Len(sim_box) : rerun.lines[i] = <<sim_box[i]>>
    /\ \E k \in BucketsPresent : Emitted(k) # {} /\ Cardinality(Members(k)) >= 2

\* sum and number of the baseline y values of the detection at position i
BaselineSum(i) == SumSeq([t \in 1..Len(LinesOfDocument[i].Baseline) |->
                             LinesOfDocument[i].Baseline[t][2]])
BaselinePoints(i) == Len(LinesOfDocument[i].Baseline)

\* the mean y of detection j lies at least d above the mean y of detection i
MeanGapAtLeast(i, j, d) ==
    BaselineSum(j) * BaselinePoints(i) - BaselineSum(i) * BaselinePoints(j)
        >= d * BaselinePoints(i) * BaselinePoints(j)

(* C9: two detections whose baseline y averages are a full bucket or more  *)
(* apart (60 in make_training_data.py, 100 in the other variant) get       *)
(* buckets in the same order: the lower average never the greater bucket.  *)
C9_QuantizationMonotone ==
    AfterExtraction =>
        \A i, j \in 1..Len(boxes) :
            MeanGapAtLeast(i, j, IF Training THEN 60 ELSE 100)
                => boxes[i].line_indicator <= boxes[j].line_indicator

C9_Witness ==
    /\ AfterExtraction
    /\ \E i, j \in 1..Len(boxes) :
          /\ MeanGapAtLeast(i, j, IF Training THEN 60 ELSE 100)
          /\ ~MeanGapAtLeast(i, j, (IF Training THEN 60 ELSE 100) + 1)
          /\ boxes[i].line_indicator < boxes[j].line_indicator
    /\ \E i, j \in 1..Len(boxes) :
          /\ MeanGapAtLeast(i, j, IF Training THEN 60 ELSE 100)
          /\ BaselineSum(j) % BaselinePoints(j) # 0

\* the lines of rm_overlap's argument that lie within 40 of their successor
CloseToSuccessor ==
    {rm_arg[i].key : i \in {j \in 1..(Len(rm_arg) - 1) :
        Abs(RefY(rm_arg[j + 1]) - RefY(rm_arg[j])) < 40}}

(* C10: rm_overlap removes exactly the lines whose successor in the        *)
(* sequence it was given has a reference-vertex y with |y(i+1) - y(i)|     *)
(* below 40, and keeps the order of the others; so the last line stays.    *)
C10_RemovesCloseToSuccessor ==
    AfterResolver =>
        LET kept(l) == l.key \notin CloseToSuccessor
        IN  sim_box = Filter(rm_arg, kept)

-----------------------------------------------------------------------------
\* apply_transcript has returned or an exception has left it
DriverEnded == pc \in {"output_ready", "raised"}

\* a layout file none of whose detections has a malformed coordinate token
CleanFile(doc) ==
    \A r \in 1..Len(doc.regions) : \A i \in 1..Len(doc.regions[r].lines) :
        LineError(doc.regions[r].lines[i]) = "none"

(* C5: a layout file without text regions is skipped and the driver goes   *)
(* on: every other file of the batch that zip() pairs with a transcript    *)
(* is still processed and written.                                         *)
C5_NoRegionDoesNotAbort ==
    (/\ DriverEnded
     /\ variant = "make_training_data"
     /\ \E z \in 1..Pairs : layout_files[z].regions = <<>>
     /\ \A i \in 1..Pairs : CleanFile(layout_files[i]))
    => \A i \in 1..Pairs :
          IF layout_files[i].regions = <<>> THEN i \notin written
                                            ELSE i \in written

-----------------------------------------------------------------------------
\* the bucket size of the running variant, and the multiple of it below the
\* baseline y average of the detection at position i
Grid == IF Training THEN 60 ELSE 100
GridFloor(i) == (BaselineSum(i) \div (Grid * BaselinePoints(i))) * Grid

\* the remainder of the average of detection i modulo the bucket size is more
\* than num/den
RemainderAbove(i, num, den) ==
    den * (BaselineSum(i) - GridFloor(i) * BaselinePoints(i))
        > num * BaselinePoints(i)

(* C11 as claimed: the bucket of a detection is its baseline y average     *)
(* rounded up to the next multiple of the bucket size when the remainder   *)
(* exceeds 30% of the bucket size (18 of 60, 30 of 100), else rounded down.*)
C11_RoundsUpAboveThirtyPercent ==
    AfterExtraction =>
        \A i \in 1..Len(boxes) :
            boxes[i].line_indicator =
                IF RemainderAbove(i, 3 * Grid, 10) THEN GridFloor(i) + Grid
                                                   ELSE GridFloor(i)

(* C11 amended: the bucket is the multiple of the bucket size reached by   *)
(* rounding up when the remainder exceeds 30 units and down otherwise, for *)
(* both bucket sizes: 30 is 30% of 100 but half of 60.  So the average     *)
(* lies in (bucket - 30, bucket + 30] for size 60 and in                   *)
(* (bucket - 70, bucket + 30] for size 100.                                *)
C11_RoundsUpAboveThirty ==
    AfterExtraction =>
        \A i \in 1..Len(boxes) :
            LET k == boxes[i].line_indicator
                n == BaselinePoints(i)
            IN  /\ k % Grid = 0
                /\ BaselineSum(i) > (k - Grid + 30) * n
                /\ BaselineSum(i) <= (k + 30) * n

C11_Witness ==
    /\ AfterExtraction /\ Training
    /\ \E i \in 1..Len(boxes) :
          /\ RemainderAbove(i, 18, 1) /\ ~RemainderAbove(i, 29, 1)
          /\ boxes[i].line_indicator = GridFloor(i)
    /\ \E i \in 1..Len(boxes) :
          /\ RemainderAbove(i, 29, 1) /\ ~RemainderAbove(i, 30, 1)
          /\ boxes[i].line_indicator = GridFloor(i)
    /\ \E i \in 1..Len(boxes) :
          /\ RemainderAbove(i, 30, 1)
          /\ boxes[i].line_indicator = GridFloor(i) + 60

-----------------------------------------------------------------------------
\* the six stages in order on one document alone: Region Selector and
\* Detection Extractor, Vertical Clusterer, Horizontal Orderer, Line
\* Simplifier, Overlap Resolver
SixStages(doc, v) ==
    rm_overlap(simplification(horizontal_sort(vertical_sort(create_box(doc, v).boxes)), v))

(* C12: the Lines handed to serialization for a document are the result of *)
(* the six stages run in order on that document alone, Overlap Resolver    *)
(* included, whatever documents were processed before it.                  *)
C12_SerializesSixStageResult ==
    pc = "call_serialize_change" =>
        sim_box = SixStages(layout_files[file_idx], variant)

====
